---- MODULE Spec2Model ----
(***************************************************************************)
(* Model of auth0/v3/management/users.py: the Users endpoint binding.      *)
(* Python strings are sequences of one-character strings, Python values    *)
(* are tagged records, a dict is a function from key names to values.      *)
(***************************************************************************)
EXTENDS Integers, Sequences, FiniteSets, TLC

VARIABLES domain, client, inv, request, outcome, result, calls, caller_body, frames

vars == <<domain, client, inv, request, outcome, result, calls, caller_body, frames>>

\* ---------------------------------------------------------------- bounds
MaxIdLen == 2
MaxFields == 2
NThreads == 2

\* ------------------------------------------------------- Python values
None == [t |-> "none"]
PyStr(s) == [t |-> "str", v |-> s]
PyBool(b) == [t |-> "bool", v |-> b]
PyInt(n) == [t |-> "int", v |-> n]
PyList(l) == [t |-> "list", v |-> l]
PyDict(d) == [t |-> "dict", v |-> d]
\* a keyword argument the call site does not pass to the REST client
NotPassed == [t |-> "notpassed"]

\* truth value testing, as `and` / `or` apply it
Truthy(x) ==
  CASE x.t = "none" -> FALSE
    [] x.t = "bool" -> x.v
    [] x.t = "int" -> x.v # 0
    [] x.t = "str" -> Len(x.v) > 0
    [] x.t = "list" -> Len(x.v) > 0
    [] x.t = "dict" -> DOMAIN x.v # {}
    [] OTHER -> TRUE

Upper == <<"A","B","C","D","E","F","G","H","I","J","K","L","M","N","O","P","Q","R","S","T","U","V","W","X","Y","Z">>
Lower == <<"a","b","c","d","e","f","g","h","i","j","k","l","m","n","o","p","q","r","s","t","u","v","w","x","y","z">>

LowerChar(c) ==
  IF \E i \in 1..26 : Upper[i] = c
    THEN Lower[CHOOSE i \in 1..26 : Upper[i] = c]
    ELSE c

\* str.lower()
lower(x) == PyStr([i \in 1..Len(x.v) |-> LowerChar(x.v[i])])

Digits == <<"0","1","2","3","4","5","6","7","8","9">>

RECURSIVE NatStr(_)
NatStr(n) == IF n < 10 THEN <<Digits[n + 1]>> ELSE NatStr(n \div 10) \o <<Digits[(n % 10) + 1]>>

\* str(x)
str(x) ==
  CASE x.t = "bool" -> PyStr(IF x.v THEN <<"T","r","u","e">> ELSE <<"F","a","l","s","e">>)
    [] x.t = "none" -> PyStr(<<"N","o","n","e">>)
    [] x.t = "int" -> PyStr(IF x.v < 0 THEN <<"-">> \o NatStr(0 - x.v) ELSE NatStr(x.v))
    [] x.t = "str" -> x

\* sep.join(list of str)
RECURSIVE JoinSeq(_, _)
JoinSeq(sep, l) ==
  IF Len(l) = 0 THEN <<>>
  ELSE IF Len(l) = 1 THEN l[1].v
  ELSE l[1].v \o sep \o JoinSeq(sep, Tail(l))

join(sep, x) == PyStr(JoinSeq(sep.v, x.v))

\* a and b or c
AndOr(a, b, c) ==
  LET ab == IF Truthy(a) THEN b ELSE a
  IN IF Truthy(ab) THEN ab ELSE c

\* a + b on str
concat(a, b) == PyStr(a.v \o b.v)

\* template % arg with the single conversion %s
RECURSIVE PercentSeq(_, _)
PercentSeq(tpl, arg) ==
  IF Len(tpl) = 0 THEN <<>>
  ELSE IF Len(tpl) >= 2 /\ tpl[1] = "%" /\ tpl[2] = "s"
    THEN str(arg).v \o SubSeq(tpl, 3, Len(tpl))
    ELSE <<tpl[1]>> \o PercentSeq(Tail(tpl), arg)

percent(tpl, arg) == PyStr(PercentSeq(tpl.v, arg))

\* template.format(*args) with the replacement field {}
RECURSIVE FormatSeq(_, _)
FormatSeq(tpl, args) ==
  IF Len(tpl) = 0 THEN <<>>
  ELSE IF Len(tpl) >= 2 /\ tpl[1] = "{" /\ tpl[2] = "}"
    THEN str(args[1]).v \o FormatSeq(SubSeq(tpl, 3, Len(tpl)), Tail(args))
    ELSE <<tpl[1]>> \o FormatSeq(Tail(tpl), args)

format(tpl, args) == PyStr(FormatSeq(tpl.v, args))

\* ------------------------------------------------------ string literals
UrlTemplate == PyStr(<<"h","t","t","p","s",":","/","/","%","s","/","a","p","i","/","v","2","/","u","s","e","r","s">>)
Slash == PyStr(<<"/">>)
Comma == PyStr(<<",">>)
MultifactorTemplate == PyStr(<<"{","}","/","m","u","l","t","i","f","a","c","t","o","r","/","{","}">>)
UnlinkTemplate == PyStr(<<"{","}","/","i","d","e","n","t","i","t","i","e","s","/","{","}","/","{","}">>)
IdentitiesTemplate == PyStr(<<"%","s","/","i","d","e","n","t","i","t","i","e","s">>)
RecoveryTemplate == PyStr(<<"%","s","/","r","e","c","o","v","e","r","y","-","c","o","d","e","-","r","e","g","e","n","e","r","a","t","i","o","n">>)
EnrollmentsTemplate == PyStr(<<"%","s","/","e","n","r","o","l","l","m","e","n","t","s">>)
LogsTemplate == PyStr(<<"%","s","/","l","o","g","s">>)

\* --------------------------------------------------- signature defaults
ListPageDefault == PyInt(0)
ListPerPageDefault == PyInt(25)
ListSearchEngineDefault == PyStr(<<"v","1">>)
ListIncludeTotalsDefault == PyBool(TRUE)
IncludeFieldsDefault == PyBool(TRUE)
LogsPageDefault == PyInt(0)
LogsPerPageDefault == PyInt(50)
LogsIncludeTotalsDefault == PyBool(FALSE)
TelemetryDefault == TRUE

\* ------------------------------------------------------------ Users
\* _url without the path separator before the id
_url_mut(id) ==
  LET url == percent(UrlTemplate, domain)
  IN IF id.t # "none" THEN concat(url, id) ELSE url

\* Users._url
_url(id) ==
  LET url == percent(UrlTemplate, domain)
  IN IF id.t # "none" THEN concat(concat(url, Slash), id) ELSE url

\* the fields entry written as a conditional expression
fields_param_mut(fields) ==
  IF Truthy(fields) THEN join(Comma, fields) ELSE None

\* the fields entry of list and get: fields and ','.join(fields) or None
fields_param(fields) ==
  AndOr(fields, IF Truthy(fields) THEN join(Comma, fields) ELSE None, None)

\* the flag without .lower()
flag_param_mut(flag) == str(flag)

\* str(flag).lower()
flag_param(flag) == lower(str(flag))

\* list's params with the None entries filtered out
list_params_mut(a) ==
  LET p == [per_page |-> a.per_page,
            page |-> a.page,
            include_totals |-> flag_param(a.include_totals),
            sort |-> a.sort,
            connection |-> a.connection,
            fields |-> fields_param(a.fields),
            include_fields |-> flag_param(a.include_fields),
            q |-> a.q,
            search_engine |-> a.search_engine]
  IN [k \in {j \in DOMAIN p : p[j].t # "none"} |-> p[k]]

list_params(a) ==
  [per_page |-> a.per_page,
   page |-> a.page,
   include_totals |-> flag_param(a.include_totals),
   sort |-> a.sort,
   connection |-> a.connection,
   fields |-> fields_param(a.fields),
   include_fields |-> flag_param(a.include_fields),
   q |-> a.q,
   search_engine |-> a.search_engine]

\* get's params with include_fields passed as the boolean it is
get_params_mut(a) ==
  [fields |-> fields_param(a.fields),
   include_fields |-> a.include_fields]

get_params(a) ==
  [fields |-> fields_param(a.fields),
   include_fields |-> flag_param(a.include_fields)]

get_log_events_params(a) ==
  [per_page |-> a.per_page,
   page |-> a.page,
   include_totals |-> flag_param(a.include_totals),
   sort |-> a.sort]

\* what each method hands to the REST client: the method called on it, the
\* positional url and the params / data keyword arguments
Req(verb, url, params, data) == [verb |-> verb, url |-> url, params |-> params, data |-> data]

\* list asking _url for the empty id
list_request_mut(a) == Req("get", _url(PyStr(<<>>)), PyDict(list_params(a)), NotPassed)
list_request(a) == Req("get", _url(None), PyDict(list_params(a)), NotPassed)
create_request(a) == Req("post", _url(None), NotPassed, a.body)
delete_all_users_request(a) == Req("delete", _url(None), NotPassed, NotPassed)
get_request(a) == Req("get", _url(a.id), PyDict(get_params(a)), NotPassed)
delete_request(a) == Req("delete", _url(a.id), NotPassed, NotPassed)
\* update dropping the None entries of the body
update_request_mut(a) ==
  Req("patch", _url(a.id), NotPassed,
      PyDict([k \in {j \in DOMAIN a.body.v : a.body.v[j].t # "none"} |-> a.body.v[k]]))
update_request(a) == Req("patch", _url(a.id), NotPassed, a.body)
\* delete_multifactor appending the suffix to the single-user URL
delete_multifactor_request_mut(a) ==
  Req("delete",
      concat(concat(_url(a.id), Slash), format(MultifactorTemplate, <<a.id, a.provider>>)),
      NotPassed, NotPassed)
delete_multifactor_request(a) ==
  Req("delete", _url(format(MultifactorTemplate, <<a.id, a.provider>>)), NotPassed, NotPassed)
unlink_user_account_request(a) ==
  Req("delete", _url(format(UnlinkTemplate, <<a.id, a.provider, a.user_id>>)), NotPassed, NotPassed)
link_user_account_request(a) ==
  Req("post", _url(percent(IdentitiesTemplate, a.user_id)), NotPassed, a.body)
regenerate_recovery_code_request(a) ==
  Req("post", _url(percent(RecoveryTemplate, a.user_id)), NotPassed, NotPassed)
get_guardian_enrollments_request(a) ==
  Req("get", _url(percent(EnrollmentsTemplate, a.user_id)), NotPassed, NotPassed)
get_log_events_request(a) ==
  Req("get", _url(percent(LogsTemplate, a.user_id)), PyDict(get_log_events_params(a)), NotPassed)

\* ------------------------------------------------------------- inputs
IdChars == {"/", "u"}
Strings(n) == UNION {[1..k -> IdChars] : k \in 0..n}
Ids == {PyStr(s) : s \in Strings(MaxIdLen)}
SecondaryIds == {PyStr(<<"7">>), PyStr(<<"/">>)}
Providers == {PyStr(<<"d","u","o">>), PyStr(<<"f","b">>)}
FieldNames == {PyStr(<<>>), PyStr(<<"e">>)}
FieldLists == {None} \cup {PyList(l) : l \in UNION {[1..k -> FieldNames] : k \in 0..MaxFields}}
Flags == {PyBool(TRUE), PyBool(FALSE)}
Sorts == {None, PyStr(<<"e",":","1">>)}
Connections == {None, PyStr(<<"c">>)}
Queries == {None, PyStr(<<"q">>)}
SearchEngines == {ListSearchEngineDefault, PyStr(<<"v","2">>)}
ListPages == {ListPageDefault}
ListPerPages == {ListPerPageDefault}
LogsPages == {LogsPageDefault}
LogsPerPages == {LogsPerPageDefault}
Bodies ==
  {PyDict([link_with |-> PyStr(<<"t","o","k","e","n">>)]),
   PyDict([blocked |-> PyBool(TRUE), email |-> None, roles |-> PyList(<<>>)])}
Domains == {PyStr(<<"t",".","c","o">>), PyStr(<<"x",".","i","o">>)}
Tokens == {PyStr(<<"j","w","t">>)}
Telemetries == {TelemetryDefault}

\* what the REST client does with the one call: it raises or it returns
Errors == {"TransportError", "ApiError"}
Outcomes ==
  {[kind |-> "raise", val |-> e] : e \in Errors}
    \cup {[kind |-> "return", val |-> "payload"]}
NoOutcome == [kind |-> "none", val |-> "none"]
NoRequest == Req("none", None, NotPassed, NotPassed)
NoInv == [op |-> "none", args |-> <<>>]

\* def list(self, page=0, per_page=25, sort=None, connection=None, q=None,
\*          search_engine='v1', include_totals=True, fields=None, include_fields=True)
ListDefaults ==
  [page |-> ListPageDefault, per_page |-> ListPerPageDefault, sort |-> None,
   connection |-> None, q |-> None, search_engine |-> ListSearchEngineDefault,
   include_totals |-> ListIncludeTotalsDefault, fields |-> None,
   include_fields |-> IncludeFieldsDefault]
\* list called with the arguments it passes through varied, the others default
ListPassedArgs ==
  {[ListDefaults EXCEPT !.page = p, !.per_page = pp, !.sort = s, !.connection = c,
                        !.q = q, !.search_engine = e] :
     p \in ListPages, pp \in ListPerPages, s \in Sorts, c \in Connections,
     q \in Queries, e \in SearchEngines}
\* list called with the arguments it converts varied, the others default
ListConvertedArgs ==
  {[ListDefaults EXCEPT !.include_totals = t, !.fields = f, !.include_fields = i] :
     t \in Flags, f \in FieldLists, i \in Flags}
ListArgs == ListPassedArgs \cup ListConvertedArgs
GetIds == {PyStr(<<>>), PyStr(<<"u">>)}
GetArgs == [id : GetIds, fields : FieldLists, include_fields : Flags]
LogsArgs ==
  [user_id : Ids, page : LogsPages, per_page : LogsPerPages, sort : Sorts,
   include_totals : Flags]

\* ----------------------------------------------------------- threads
Threads == 1..NThreads
IdleFrame == [pc |-> "idle", inv |-> NoInv, req |-> NoRequest, sent |-> NoRequest]

\* Users.__init__
Init ==
  /\ domain \in Domains
  /\ client \in [jwt : Tokens, telemetry : Telemetries]
  /\ inv = NoInv
  /\ request = NoRequest
  /\ outcome = NoOutcome
  /\ result = NoOutcome
  /\ calls = 0
  /\ caller_body = None
  /\ frames = [t \in Threads |-> IdleFrame]

\* the client call repeated once when it raises
Delegate_mut(req, o) ==
  /\ request' = req
  /\ calls' = (IF o.kind = "raise" THEN 2 ELSE 1)
  /\ \E o2 \in Outcomes : outcome' = (IF o.kind = "raise" THEN o2 ELSE o)
  /\ result' = outcome'

\* return self.client.<verb>(...): one call on the REST client, whose
\* outcome (the response returned or the error raised) is the operation's;
\* calls counts the client calls the operation makes
Delegate(req, o) ==
  /\ request' = req
  /\ calls' = 1
  /\ outcome' = o
  /\ result' = o

\* one whole method call: op(args) by a caller holding `body`
Call(op, a, req, body) ==
  /\ inv' = [op |-> op, args |-> a]
  /\ \E o \in Outcomes : Delegate(req, o)
  /\ caller_body' = body
  /\ UNCHANGED <<domain, client, frames>>

list == \E a \in ListArgs : Call("list", a, list_request(a), None)
create == \E a \in [body : Bodies] : Call("create", a, create_request(a), a.body)
delete_all_users == Call("delete_all_users", <<>>, delete_all_users_request(<<>>), None)
get == \E a \in GetArgs : Call("get", a, get_request(a), None)
delete == \E a \in [id : Ids] : Call("delete", a, delete_request(a), None)
update == \E a \in [id : Ids, body : Bodies] : Call("update", a, update_request(a), a.body)
delete_multifactor ==
  \E a \in [id : Ids, provider : Providers] :
    Call("delete_multifactor", a, delete_multifactor_request(a), None)
unlink_user_account ==
  \E a \in [id : Ids, provider : Providers, user_id : SecondaryIds] :
    Call("unlink_user_account", a, unlink_user_account_request(a), None)
link_user_account ==
  \E a \in [user_id : Ids, body : Bodies] :
    Call("link_user_account", a, link_user_account_request(a), a.body)
regenerate_recovery_code ==
  \E a \in [user_id : Ids] :
    Call("regenerate_recovery_code", a, regenerate_recovery_code_request(a), None)
get_guardian_enrollments ==
  \E a \in [user_id : Ids] :
    Call("get_guardian_enrollments", a, get_guardian_enrollments_request(a), None)
get_log_events ==
  \E a \in LogsArgs : Call("get_log_events", a, get_log_events_request(a), None)

Next ==
  \/ list
  \/ create
  \/ delete_all_users
  \/ get
  \/ delete
  \/ update
  \/ delete_multifactor
  \/ unlink_user_account
  \/ link_user_account
  \/ regenerate_recovery_code
  \/ get_guardian_enrollments
  \/ get_log_events

Spec == Init /\ [][Next]_vars

\* ------------------------------------------- calls from several threads
\* the request a method builds from its own arguments and self.domain
RequestOf(i) ==
  CASE i.op = "list" -> list_request(i.args)
    [] i.op = "create" -> create_request(i.args)
    [] i.op = "delete_all_users" -> delete_all_users_request(i.args)
    [] i.op = "get" -> get_request(i.args)
    [] i.op = "delete" -> delete_request(i.args)
    [] i.op = "update" -> update_request(i.args)
    [] i.op = "delete_multifactor" -> delete_multifactor_request(i.args)
    [] i.op = "unlink_user_account" -> unlink_user_account_request(i.args)
    [] i.op = "link_user_account" -> link_user_account_request(i.args)
    [] i.op = "regenerate_recovery_code" -> regenerate_recovery_code_request(i.args)
    [] i.op = "get_guardian_enrollments" -> get_guardian_enrollments_request(i.args)
    [] i.op = "get_log_events" -> get_log_events_request(i.args)

U1 == PyStr(<<"u">>)
Body1 == PyDict([link_with |-> PyStr(<<"t","o","k","e","n">>)])
ConcInvs ==
  {[op |-> "list", args |-> ListDefaults],
   [op |-> "create", args |-> [body |-> Body1]],
   [op |-> "delete_all_users", args |-> <<>>],
   [op |-> "get", args |-> [id |-> U1, fields |-> PyList(<<PyStr(<<"e">>)>>), include_fields |-> PyBool(FALSE)]],
   [op |-> "delete", args |-> [id |-> U1]],
   [op |-> "update", args |-> [id |-> U1, body |-> Body1]],
   [op |-> "delete_multifactor", args |-> [id |-> U1, provider |-> PyStr(<<"d","u","o">>)]],
   [op |-> "unlink_user_account", args |-> [id |-> U1, provider |-> PyStr(<<"f","b">>), user_id |-> PyStr(<<"7">>)]],
   [op |-> "link_user_account", args |-> [user_id |-> U1, body |-> Body1]],
   [op |-> "regenerate_recovery_code", args |-> [user_id |-> U1]],
   [op |-> "get_guardian_enrollments", args |-> [user_id |-> U1]],
   [op |-> "get_log_events", args |-> [user_id |-> U1, page |-> LogsPageDefault, per_page |-> LogsPerPageDefault, sort |-> None, include_totals |-> LogsIncludeTotalsDefault]]}

\* a thread enters a method with its own arguments
Enter(t) ==
  /\ frames[t].pc = "idle"
  /\ \E i \in ConcInvs : frames' = [frames EXCEPT ![t] = [IdleFrame EXCEPT !.pc = "entered", !.inv = i]]
  /\ UNCHANGED <<domain, client, inv, request, outcome, result, calls, caller_body>>

\* the method body keeping the url it built on the instance
Build_mut(t) ==
  /\ frames[t].pc = "entered"
  /\ frames' = [frames EXCEPT ![t].pc = "built", ![t].req = RequestOf(frames[t].inv)]
  /\ domain' = RequestOf(frames[t].inv).url
  /\ UNCHANGED <<client, inv, request, outcome, result, calls, caller_body>>

\* the method body up to the client call: url and params are locals of the frame
Build(t) ==
  /\ frames[t].pc = "entered"
  /\ frames' = [frames EXCEPT ![t].pc = "built", ![t].req = RequestOf(frames[t].inv)]
  /\ UNCHANGED <<domain, client, inv, request, outcome, result, calls, caller_body>>

\* self.client.<verb>(...) receives the frame's request
Send(t) ==
  /\ frames[t].pc = "built"
  /\ frames' = [frames EXCEPT ![t].pc = "sent", ![t].sent = frames[t].req]
  /\ UNCHANGED <<domain, client, inv, request, outcome, result, calls, caller_body>>

\* the client's response or error leaves the method; the frame is gone
Return(t) ==
  /\ frames[t].pc = "sent"
  /\ frames' = [frames EXCEPT ![t] = IdleFrame]
  /\ UNCHANGED <<domain, client, inv, request, outcome, result, calls, caller_body>>

NextConc ==
  \/ \E t \in Threads : Enter(t)
  \/ \E t \in Threads : Build(t)
  \/ \E t \in Threads : Send(t)
  \/ \E t \in Threads : Return(t)

SpecConc == Init /\ [][NextConc]_vars

\* ================================================================ claims
\* the base users URL, written out: https://{domain}/api/v2/users
UsersUrl == <<"h","t","t","p","s",":","/","/">> \o domain.v \o <<"/","a","p","i","/","v","2","/","u","s","e","r","s">>
True_ == PyStr(<<"t","r","u","e">>)
False_ == PyStr(<<"f","a","l","s","e">>)
FlagString(b) == IF b.v THEN True_ ELSE False_

HasDoubleSlash(s) == \E i \in 1..(Len(s) - 1) : s[i] = "/" /\ s[i + 1] = "/"
\* the part of a URL after the https:// scheme
AfterScheme(u) == SubSeq(u, 9, Len(u))

\* the position in the joined string where element i of l starts
RECURSIVE StartOf(_, _)
StartOf(l, i) == IF i = 1 THEN 1 ELSE StartOf(l, i - 1) + Len(l[i - 1].v) + 1
\* s is the elements of the non-empty list l, in order, separated by commas
IsCommaJoin(s, l) ==
  /\ Len(s) = StartOf(l, Len(l)) + Len(l[Len(l)].v) - 1
  /\ \A i \in 1..Len(l) :
       /\ SubSeq(s, StartOf(l, i), StartOf(l, i) + Len(l[i].v) - 1) = l[i].v
       /\ i < Len(l) => s[StartOf(l, i) + Len(l[i].v)] = ","

IsListDefaultCall == inv.op = "list" /\ inv.args = ListDefaults
ParamKeys == IF request.params.t = "dict" THEN DOMAIN request.params.v ELSE {}
Param(k) == request.params.v[k]

\* C1 (as stated): list() with no arguments issues one GET to the base users
\* URL with include_totals, include_fields = "true", search_engine = "v1" and
\* no key named sort, connection, q or fields in the params mapping.
C1_NoArgsOmitsKeys ==
  IsListDefaultCall =>
    /\ calls = 1
    /\ request.verb = "get"
    /\ request.url.v = UsersUrl
    /\ Param("include_totals") = True_
    /\ Param("include_fields") = True_
    /\ Param("search_engine") = PyStr(<<"v","1">>)
    /\ ParamKeys \cap {"sort", "connection", "q", "fields"} = {}

\* C1 (amended): list() with no arguments issues one GET to the base users
\* URL with include_totals, include_fields = "true", search_engine = "v1";
\* the keys sort, connection, q and fields are in the params mapping, each
\* bound to None.
C1_NoArgsSendsNone ==
  IsListDefaultCall =>
    /\ calls = 1
    /\ request.verb = "get"
    /\ request.url.v = UsersUrl
    /\ Param("include_totals") = True_
    /\ Param("include_fields") = True_
    /\ Param("search_engine") = PyStr(<<"v","1">>)
    /\ {"sort", "connection", "q", "fields"} \subseteq ParamKeys
    /\ \A k \in {"sort", "connection", "q", "fields"} : Param(k).t = "none"

C1_Witness ==
  /\ IsListDefaultCall
  /\ request.verb = "get"
  /\ request.url.v = <<"h","t","t","p","s",":","/","/","t",".","c","o","/","a","p","i","/","v","2","/","u","s","e","r","s">>
  /\ Param("sort").t = "none"

SendsParams == inv.op \in {"list", "get", "get_log_events"}
\* the arguments of the current call that are passed through as they are
PassedThrough ==
  CASE inv.op = "list" -> {"page", "per_page", "sort", "connection", "q", "search_engine"}
    [] inv.op = "get_log_events" -> {"page", "per_page", "sort"}
    [] OTHER -> {}
HasFields == inv.op \in {"list", "get"}
IsEmptyStr(x) == x.t = "str" /\ Len(x.v) = 0

\* C2 (as stated): for list, get and get_log_events a parameter whose value
\* is None/unset is omitted from the params mapping: no key of the mapping
\* is bound to None or to an empty value.
C2_NoneOmitted ==
  SendsParams =>
    \A k \in ParamKeys : Param(k).t # "none" /\ ~IsEmptyStr(Param(k))

\* C2 (amended): for list, get and get_log_events a parameter whose value is
\* None/unset stays in the params mapping, bound to None: the mapping always
\* has the operation's full key set, and a None/unset value is never sent as
\* an empty string.
C2_NoneKept ==
  SendsParams =>
    /\ ParamKeys = (CASE inv.op = "list" -> DOMAIN ListDefaults
                      [] inv.op = "get" -> {"fields", "include_fields"}
                      [] inv.op = "get_log_events" -> {"per_page", "page", "include_totals", "sort"})
    /\ \A k \in PassedThrough : inv.args[k].t = "none" => Param(k).t = "none"
    /\ HasFields /\ inv.args.fields.t = "none" => Param("fields").t = "none"

C2_Witness ==
  /\ inv.op = "get_log_events"
  /\ inv.args.sort.t = "none"
  /\ "sort" \in ParamKeys
  /\ Param("sort").t = "none"
  /\ Param("include_totals") = False_

UsesIdUrl == inv.op \in {"get", "delete", "update"}
StartsWithSlash(s) == Len(s) > 0 /\ s[1] = "/"

\* C3 (as stated): for every id (the empty string and ids that begin or end
\* with '/' included) the URL built for the id is
\* "https://{domain}/api/v2/users/" followed by the id, and the part after
\* the scheme has no double slash.
C3_NoDoubleSlash ==
  UsesIdUrl =>
    /\ request.url.v = UsersUrl \o <<"/">> \o inv.args.id.v
    /\ ~HasDoubleSlash(AfterScheme(request.url.v))

\* C3 (amended): for every id the URL built for the id is
\* "https://{domain}/api/v2/users/" followed by the id; for a domain without
\* '/', the part after the scheme has a double slash exactly when the id
\* begins with '/' or itself contains a double slash.
C3_VerbatimId ==
  UsesIdUrl =>
    /\ request.url.v = UsersUrl \o <<"/">> \o inv.args.id.v
    /\ HasDoubleSlash(AfterScheme(request.url.v))
         <=> (StartsWithSlash(inv.args.id.v) \/ HasDoubleSlash(inv.args.id.v))

C3_Witness ==
  /\ inv.op = "delete"
  /\ inv.args.id.v = <<"u", "/">>
  /\ request.url.v = <<"h","t","t","p","s",":","/","/","x",".","i","o","/","a","p","i","/","v","2","/","u","s","e","r","s","/","u","/">>
  /\ ~HasDoubleSlash(AfterScheme(request.url.v))

IsNonEmptyList(x) == x.t = "list" /\ Len(x.v) > 0
AllElementsEmpty(x) == \A i \in 1..Len(x.v) : Len(x.v[i].v) = 0

\* C4 (as stated): for the fields argument of list and get, a non-empty list
\* is sent as its elements joined with commas in the given order, an empty
\* or absent list produces no fields key, and the value sent for fields is
\* never the empty string.
C4_FieldsJoinedOrOmitted ==
  HasFields =>
    /\ IsNonEmptyList(inv.args.fields) =>
         /\ "fields" \in ParamKeys
         /\ Param("fields").t = "str"
         /\ IsCommaJoin(Param("fields").v, inv.args.fields.v)
    /\ ~IsNonEmptyList(inv.args.fields) => "fields" \notin ParamKeys
    /\ "fields" \in ParamKeys => ~IsEmptyStr(Param("fields"))

\* C4 (amended): for the fields argument of list and get, a non-empty list
\* whose comma-join is not the empty string is sent as its elements joined
\* with commas in the given order; an empty or absent list, and the list
\* [""] whose join is empty, leave the fields key bound to None; the value
\* sent for fields is never the empty string.
C4_FieldsJoinedOrNone ==
  HasFields =>
    /\ "fields" \in ParamKeys
    /\ (IsNonEmptyList(inv.args.fields) /\ inv.args.fields.v # <<PyStr(<<>>)>>) =>
         /\ Param("fields").t = "str"
         /\ IsCommaJoin(Param("fields").v, inv.args.fields.v)
    /\ (~IsNonEmptyList(inv.args.fields) \/ inv.args.fields.v = <<PyStr(<<>>)>>) =>
         Param("fields").t = "none"
    /\ ~IsEmptyStr(Param("fields"))

C4_Witness ==
  /\ inv.op = "list"
  /\ inv.args.fields = PyList(<<PyStr(<<"e">>), PyStr(<<>>)>>)
  /\ Param("fields") = PyStr(<<"e", ",">>)

\* C5: every boolean passed as include_totals or include_fields to list, get
\* or get_log_events is sent as exactly "true" when it is true and exactly
\* "false" when it is false; no boolean-typed value is in the params mapping.
C5_BooleansLowercase ==
  SendsParams =>
    /\ inv.op \in {"list", "get_log_events"} =>
         Param("include_totals") = FlagString(inv.args.include_totals)
    /\ inv.op \in {"list", "get"} =>
         Param("include_fields") = FlagString(inv.args.include_fields)
    /\ \A k \in ParamKeys : Param(k).t # "bool"

C5_Witness ==
  /\ inv.op = "list"
  /\ inv.args.include_totals = PyBool(FALSE)
  /\ inv.args.include_fields = PyBool(TRUE)
  /\ Param("include_totals") = PyStr(<<"f","a","l","s","e">>)
  /\ Param("include_fields") = PyStr(<<"t","r","u","e">>)

\* C6 (as stated): for every id, non-empty fields list and boolean
\* include_fields, get issues one GET to https://{domain}/api/v2/users/{id}
\* whose params mapping has exactly the keys fields and include_fields, bound
\* to the comma-joined fields and the lowercase boolean string.
C6_GetSendsJoinedFields ==
  (inv.op = "get" /\ IsNonEmptyList(inv.args.fields)) =>
    /\ calls = 1
    /\ request.verb = "get"
    /\ request.url.v = UsersUrl \o <<"/">> \o inv.args.id.v
    /\ ParamKeys = {"fields", "include_fields"}
    /\ Param("fields").t = "str"
    /\ IsCommaJoin(Param("fields").v, inv.args.fields.v)
    /\ Param("include_fields") = FlagString(inv.args.include_fields)

\* C6 (amended): for every id, non-empty fields list and boolean
\* include_fields, get issues one GET to https://{domain}/api/v2/users/{id}
\* whose params mapping has exactly the keys fields and include_fields;
\* include_fields is bound to the lowercase boolean string, and fields to the
\* comma-joined fields, except for the list [""], whose join is empty and for
\* which fields is bound to None.
C6_GetSendsJoinedOrNone ==
  (inv.op = "get" /\ IsNonEmptyList(inv.args.fields)) =>
    /\ calls = 1
    /\ request.verb = "get"
    /\ request.url.v = UsersUrl \o <<"/">> \o inv.args.id.v
    /\ ParamKeys = {"fields", "include_fields"}
    /\ IF inv.args.fields.v = <<PyStr(<<>>)>>
         THEN Param("fields").t = "none"
         ELSE /\ Param("fields").t = "str"
              /\ IsCommaJoin(Param("fields").v, inv.args.fields.v)
    /\ Param("include_fields") = FlagString(inv.args.include_fields)

C6_Witness ==
  /\ inv.op = "get"
  /\ inv.args = [id |-> PyStr(<<"u">>), fields |-> PyList(<<PyStr(<<"e">>)>>), include_fields |-> PyBool(FALSE)]
  /\ request.verb = "get"
  /\ request.url.v = <<"h","t","t","p","s",":","/","/","t",".","c","o","/","a","p","i","/","v","2","/","u","s","e","r","s","/","u">>
  /\ request.params.v = [fields |-> PyStr(<<"e">>), include_fields |-> PyStr(<<"f","a","l","s","e">>)]

\* the single-user URL of an id, written out
UserUrl(id) == UsersUrl \o <<"/">> \o id.v
NoParamsNoBody == request.params = NotPassed /\ request.data = NotPassed

\* C7: each sub-resource operation issues the verb of the operations table to
\* the single-user URL of its id followed by the fixed suffix, the id being
\* appended once: delete_multifactor, unlink_user_account, link_user_account,
\* regenerate_recovery_code (no body), get_guardian_enrollments, get_log_events.
C7_SubResourceUrls ==
  /\ inv.op = "delete_multifactor" =>
       /\ request.verb = "delete"
       /\ request.url.v = UserUrl(inv.args.id) \o <<"/","m","u","l","t","i","f","a","c","t","o","r","/">> \o inv.args.provider.v
  /\ inv.op = "unlink_user_account" =>
       /\ request.verb = "delete"
       /\ request.url.v = UserUrl(inv.args.id) \o <<"/","i","d","e","n","t","i","t","i","e","s">> \o <<"/">> \o inv.args.provider.v
                             \o <<"/">> \o inv.args.user_id.v
  /\ inv.op = "link_user_account" =>
       /\ request.verb = "post"
       /\ request.url.v = UserUrl(inv.args.user_id) \o <<"/","i","d","e","n","t","i","t","i","e","s">>
  /\ inv.op = "regenerate_recovery_code" =>
       /\ request.verb = "post"
       /\ request.url.v = UserUrl(inv.args.user_id) \o <<"/","r","e","c","o","v","e","r","y","-","c","o","d","e","-","r","e","g","e","n","e","r","a","t","i","o","n">>
       /\ NoParamsNoBody
  /\ inv.op = "get_guardian_enrollments" =>
       /\ request.verb = "get"
       /\ request.url.v = UserUrl(inv.args.user_id) \o <<"/","e","n","r","o","l","l","m","e","n","t","s">>
  /\ inv.op = "get_log_events" =>
       /\ request.verb = "get"
       /\ request.url.v = UserUrl(inv.args.user_id) \o <<"/","l","o","g","s">>

C7_Witness ==
  /\ inv.op = "delete_multifactor"
  /\ inv.args = [id |-> PyStr(<<"u">>), provider |-> PyStr(<<"d","u","o">>)]
  /\ request.verb = "delete"
  /\ request.url.v = <<"h","t","t","p","s",":","/","/","t",".","c","o","/","a","p","i","/","v","2","/","u","s","e","r","s","/","u","/","m","u","l","t","i","f","a","c","t","o","r","/","d","u","o">>

HasBody == inv.op \in {"create", "update", "link_user_account"}

\* C8: for create, update and link_user_account the body handed to the REST
\* client is the body the caller passed, with no key added, removed or
\* converted, and the caller's body is the same after the call as before it.
C8_BodyPassedThrough ==
  HasBody =>
    /\ request.data = inv.args.body
    /\ request.params = NotPassed
    /\ caller_body = inv.args.body

C8_Witness ==
  /\ inv.op = "update"
  /\ inv.args.body = PyDict([blocked |-> PyBool(TRUE), email |-> None, roles |-> PyList(<<>>)])
  /\ request.data.v.blocked = PyBool(TRUE)
  /\ request.data.v.email = None
  /\ request.verb = "patch"

\* C9: every operation makes exactly one call on the REST client; when the
\* call fails the operation fails with the same error and makes no second
\* call, when it succeeds the operation returns the client's response.
C9_OneCallNoRetry ==
  [][/\ calls' = 1
     /\ outcome' \in Outcomes
     /\ result' = outcome']_vars

C9_Witness ==
  /\ calls = 1
  /\ inv.op = "create"
  /\ request.verb = "post"
  /\ outcome = [kind |-> "raise", val |-> "ApiError"]
  /\ result = outcome

\* C10: no operation changes the configuration (domain, REST client handle),
\* under any interleaving of calls on the same instance, and the request a
\* call builds and issues is the one its own arguments and the
\* configuration determine, whatever the other calls do.
C10_StatelessReentrant ==
  [][/\ domain' = domain
     /\ client' = client
     /\ \A t \in Threads :
          /\ frames'[t].pc \in {"built", "sent"} => frames'[t].req = RequestOf(frames'[t].inv)
          /\ frames'[t].pc = "sent" => frames'[t].sent = RequestOf(frames'[t].inv)]_vars

C10_Witness ==
  /\ frames[1].pc = "sent"
  /\ frames[2].pc = "built"
  /\ frames[1].inv.op = "list"
  /\ frames[2].inv.op = "get"
  /\ frames[1].sent.url.v = UsersUrl
  /\ frames[2].req.url.v = UsersUrl \o <<"/", "u">>

====
